---- MODULE Spec2Model ----
(***************************************************************************)
(* Model of the EfficientPose detection post-processing and pose-recovery  *)
(* pipeline of examples/efficientpose/debugger.py:                         *)
(*   DetectAndEstimateEfficientPose.call -> EfficientPosePostprocess.call  *)
(* One action per statement of EfficientPosePostprocess.call (the two      *)
(* SequentialProcessors are unrolled into their processors).               *)
(*                                                                         *)
(* Numbers.  Normalized box coordinates, box deltas and regression values  *)
(* are exact rationals in thousandths (an integer k stands for k/1000);    *)
(* class scores are in tenths; the IoU threshold is in hundredths.  A      *)
(* Box2D coordinate is a rational [n, d] standing for n/d.                 *)
(* Arrays are sequences; a Python index i is position i+1.                 *)
(***************************************************************************)
EXTENDS Integers, Sequences, FiniteSets, TLC

VARIABLES
    pc,                 \* the statement of the call to execute next
    image,              \* argument image: its shape [height, width]
    detections,         \* argument: tensor [1][N] of rows [deltas, scores]
    transformations,    \* argument: tensor [1][N][2*num_pose_dims]
    image_scale,        \* argument image_scale
    box_data,           \* local box_data
    box_data_all,       \* local box_data_all
    boxes2D,            \* local boxes2D
    rotations,          \* local rotations
    translations,       \* local translations
    selected_indices,   \* local selected_indices
    poses6D,            \* local poses6D
    caller,             \* "detect": DetectAndEstimateEfficientPose.call; "direct"
    wrapped,            \* what DetectAndEstimateEfficientPose.call returns
    err,                \* "none", or the exception that ended the call
    trace,              \* the processors applied so far in this call
    calls,              \* concurrent detector calls: the frame of each thread
    draw_pose6D         \* instance attribute self.draw_pose6D of the detector

vars == <<pc, image, detections, transformations, image_scale, box_data,
          box_data_all, boxes2D, rotations, translations, selected_indices,
          poses6D, caller, wrapped, err, trace, calls, draw_pose6D>>

(***************************************************************************)
(* Bounds and configuration                                                *)
(***************************************************************************)
MaxAnchors == 3

num_pose_dims == 3
class_arg == 0
score_thresh == 5
nms_thresh == 45
width == 640
height == (512 * 125) \div 100

variances == <<1, 1, 2, 2>>
class_names == <<"background", "driller", "clamp">>

\* model.prior_boxes: one prior (center_x, center_y, width, height) per anchor
prior_boxes(N) == [i \in 1..N |-> <<200, 200, 200, 200>>]

\* the image shapes (height, width) a caller passes
ImageShapes == {[height |-> 480, width |-> 640], [height |-> 640, width |-> 640]}
\* the image_scale of a direct caller that resized its input (the detector
\* itself passes 1.0)
ImageScales == {2}

\* regression deltas (center_x, center_y, width, height) of one anchor
Deltas == {<<0, 0, 0, 0>>, <<500, 0, 0, 0>>, <<1250, 0, 0, 0>>,
           <<3000, 0, 4010, 0>>}
\* class scores of one anchor, background first
Scores == {<<1, 9, 0>>, <<2, 8, 6>>, <<7, 3, 0>>}
DetectionRows == [deltas : Deltas, scores : Scores]

\* the per-anchor pose regressions: rotation then translation
TransformationRows(N) ==
    {[i \in 1..N |-> <<-(10 * i), 7, 10 * i, 5, 100 - i, 100 + i>>]}

(***************************************************************************)
(* Arithmetic                                                              *)
(***************************************************************************)
Range(f) == {f[i] : i \in DOMAIN f}
Min(a, b) == IF a <= b THEN a ELSE b
Max(a, b) == IF a >= b THEN a ELSE b

\* Python int() of the rational n/d (d > 0): truncation toward zero
IntTrunc(n, d) == IF n >= 0 THEN n \div d ELSE -((-n) \div d)

\* n/d (d > 0) rounded to the nearest integer, halves away from zero
RoundHalfAway(n, d) ==
    IF n >= 0 THEN (2 * n + d) \div (2 * d) ELSE -((2 * (-n) + d) \div (2 * d))

Rat(n, d) == [n |-> n, d |-> d]

(***************************************************************************)
(* Processors of postprocess_1                                             *)
(***************************************************************************)
\* pr.Squeeze: drops the batch axis
Squeeze(x) == x[1]

\* pr.DecodeBoxes: variance-scaled deltas applied to the prior's center and
\* size, then center form to corner form
decode_row(deltas, prior) ==
    LET cx == prior[1] + (deltas[1] * variances[1]) \div 10
        cy == prior[2] + (deltas[2] * variances[2]) \div 10
        w  == prior[3] + (deltas[3] * variances[3]) \div 10
        h  == prior[4] + (deltas[4] * variances[4]) \div 10
    IN  <<cx - w \div 2, cy - h \div 2, cx + w \div 2, cy + h \div 2>>

DecodeBoxes(rows) ==
    [i \in 1..Len(rows) |->
        [box |-> decode_row(rows[i].deltas, prior_boxes(Len(rows))[i]),
         scores |-> rows[i].scores]]

\* pr.RemoveClass: drops the score column of class class_arg
RemoveColumn(s, k) == [j \in 1..(Len(s) - 1) |-> IF j < k THEN s[j] ELSE s[j + 1]]

RemoveClass(rows) ==
    [i \in 1..Len(rows) |->
        [box |-> rows[i].box, scores |-> RemoveColumn(rows[i].scores, class_arg + 1)]]

\* the class names left after RemoveClass
kept_class_names == RemoveColumn(class_names, class_arg + 1)
num_classes == Len(kept_class_names)

(***************************************************************************)
(* Processors of postprocess_2                                             *)
(***************************************************************************)
Area(b) == (b[3] - b[1]) * (b[4] - b[2])

Intersection(a, b) ==
    Max(0, Min(a[3], b[3]) - Max(a[1], b[1])) *
    Max(0, Min(a[4], b[4]) - Max(a[2], b[2]))

Union(a, b) == Area(a) + Area(b) - Intersection(a, b)

\* intersection-over-union of a and b exceeds thr/100
IoUExceeds(a, b, thr) == Intersection(a, b) * 100 > thr * Union(a, b)

\* the highest-scoring index of S, the lower index on a tie
Best(scores, S) ==
    CHOOSE i \in S : \A j \in S :
        scores[i] > scores[j] \/ (scores[i] = scores[j] /\ i <= j)

\* candidate indices by descending score
RECURSIVE SortByScore(_, _)
SortByScore(scores, S) ==
    IF S = {} THEN <<>>
    ELSE LET b == Best(scores, S)
         IN  <<b>> \o SortByScore(scores, S \ {b})

\* greedy suppression over the sorted candidates: keep the first, discard the
\* remaining ones whose IoU with it exceeds thr, repeat
RECURSIVE Suppress(_, _, _)
Suppress(boxes, order, thr) ==
    IF order = <<>> THEN <<>>
    ELSE LET selected == Head(order)
             remaining == SelectSeq(Tail(order),
                 LAMBDA j : ~IoUExceeds(boxes[selected], boxes[j], thr))
         IN  <<selected>> \o Suppress(boxes, remaining, thr)

\* suppression of one class: the kept candidates as [box, score]
apply_non_max_suppression(boxes, scores, thr) ==
    LET kept == Suppress(boxes, SortByScore(scores, DOMAIN boxes), thr)
    IN  [k \in 1..Len(kept) |-> [box |-> boxes[kept[k]], score |-> scores[kept[k]]]]

\* pr.NonMaximumSuppressionPerClass: suppression applied to each class alone
NonMaximumSuppressionPerClass(rows, thr) ==
    [c \in 1..num_classes |->
        apply_non_max_suppression([i \in 1..Len(rows) |-> rows[i].box],
                                  [i \in 1..Len(rows) |-> rows[i].scores[c]],
                                  thr)]

\* pr.MergeNMSBoxWithClass: the kept boxes of all classes in one list, by
\* class index then by descending score; a row carries its class as the one
\* column of scores that holds its score
RECURSIVE MergeFrom(_, _)
MergeFrom(per_class, c) ==
    IF c > Len(per_class) THEN <<>>
    ELSE [k \in 1..Len(per_class[c]) |->
             [box |-> per_class[c][k].box,
              scores |-> [j \in 1..Len(per_class) |->
                             IF j = c THEN per_class[c][k].score ELSE 0]]]
         \o MergeFrom(per_class, c + 1)

MergeNMSBoxWithClass(per_class) == MergeFrom(per_class, 1)

\* the class of a row (first column of the highest score) and its score
row_class(r) == Best(r.scores, DOMAIN r.scores)
row_score(r) == r.scores[row_class(r)]

\* pr.FilterBoxes: the rows whose highest score reaches the threshold
FilterBoxes(rows, thresh) == SelectSeq(rows, LAMBDA r : row_score(r) >= thresh)

(***************************************************************************)
(* Box2D processors                                                        *)
(***************************************************************************)
\* pr.ToBoxes2D: one Box2D per row of box_data
ToBoxes2D(rows) ==
    [k \in 1..Len(rows) |->
        [coordinates |-> [j \in 1..4 |-> Rat(rows[k].box[j], 1000)],
         score |-> row_score(rows[k]),
         class_name |-> kept_class_names[row_class(rows[k])]]]

\* denormalize_box: image_shape is not read; int() truncates
denormalize_box(box, image_shape) ==
    LET x_min == box[1]
        y_min == box[2]
        x_max == box[3]
        y_max == box[4]
    IN  <<Rat(IntTrunc(x_min.n * width, x_min.d), 1),
          Rat(IntTrunc(y_min.n * height, y_min.d), 1),
          Rat(IntTrunc(x_max.n * width, x_max.d), 1),
          Rat(IntTrunc(y_max.n * height, y_max.d), 1)>>

\* DenormalizeBoxes2D.call
DenormalizeBoxes2D(img, boxes) ==
    [k \in 1..Len(boxes) |->
        [boxes[k] EXCEPT !.coordinates = denormalize_box(boxes[k].coordinates, img)]]

\* ScaleBoxes2D: every coordinate times the scale num/den
ScaleBoxes2D(boxes, num, den) ==
    [k \in 1..Len(boxes) |->
        [boxes[k] EXCEPT !.coordinates =
            [j \in 1..4 |-> Rat(boxes[k].coordinates[j].n * num,
                                boxes[k].coordinates[j].d * den)]]]

\* pr.RoundBoxes2D: every coordinate to the nearest integer
RoundBoxes2D(boxes) ==
    [k \in 1..Len(boxes) |->
        [boxes[k] EXCEPT !.coordinates =
            [j \in 1..4 |-> Rat(RoundHalfAway(boxes[k].coordinates[j].n,
                                              boxes[k].coordinates[j].d), 1)]]]

(***************************************************************************)
(* Pose processors                                                         *)
(***************************************************************************)
\* tensor[:, :, lo:hi] of a rank-3 tensor (positions lo+1..hi)
SliceLast(tensor, lo, hi) ==
    [b \in 1..Len(tensor) |->
        [i \in 1..Len(tensor[b]) |-> SubSeq(tensor[b][i], lo + 1, hi)]]

\* Python indices of the rows of all_rows that match row r on box and class
Matches(all_rows, r) ==
    {i \in 0..(Len(all_rows) - 1) :
        /\ all_rows[i + 1].box = r.box
        /\ all_rows[i + 1].scores[row_class(r)] = row_score(r)}

\* ComputeSelectedIndices: for each survivor the index of its pre-NMS row
ComputeSelectedIndices(all_rows, rows) ==
    [k \in 1..Len(rows) |->
        LET m == Matches(all_rows, rows[k])
        IN  IF m = {} THEN -1 ELSE CHOOSE i \in m : \A j \in m : i <= j]

\* array[indices] with an integer index array (Python indices)
Take(array, indices) == [k \in 1..Len(indices) |-> array[indices[k] + 1]]

\* array[indices] raises IndexError on an empty index array and on an index
\* outside the array
Indexable(array, indices) ==
    /\ indices # <<>>
    /\ \A k \in 1..Len(indices) : 0 <= indices[k] /\ indices[k] < Len(array)

\* pr.Scale: every element times the scalar
Scale(array, scalar) ==
    [k \in 1..Len(array) |-> [j \in 1..Len(array[k]) |-> array[k][j] * scalar]]

\* ToPose6D: one Pose6D per row of box_data
ToPose6D(rows, rots, trans) ==
    [k \in 1..Len(rows) |->
        [rotation |-> rots[k], translation |-> trans[k],
         class_name |-> kept_class_names[row_class(rows[k])]]]

(***************************************************************************)
(* EfficientPosePostprocess: the wiring of __init__ and call               *)
(***************************************************************************)
\* suppression configured with the score threshold (0.5) for the IoU threshold
postprocess_2_nms_score_thresh(rows) ==
    NonMaximumSuppressionPerClass(rows, score_thresh * 10)

\* pr.NonMaximumSuppressionPerClass(nms_thresh)
postprocess_2_nms(rows) == NonMaximumSuppressionPerClass(rows, nms_thresh)

\* pr.FilterBoxes(class_names, score_thresh)
postprocess_2_filter(rows) == FilterBoxes(rows, score_thresh)

\* the boxes multiplied by image_scale itself, not by its inverse
scale_boxes2D_call_not_inverted(boxes, scale) == ScaleBoxes2D(boxes, scale, 1)

\* self.scale_boxes2D(boxes2D, 1 / image_scale)
scale_boxes2D_call(boxes, scale) == ScaleBoxes2D(boxes, 1, scale)

\* a guard that always enters the pose branch
pose_guard_always == TRUE

\* if len(boxes2D) > 0
pose_guard == Len(boxes2D) > 0

\* the selection computed for every pre-NMS row
compute_selections_call_all == ComputeSelectedIndices(box_data_all, box_data_all)

\* self.compute_selections(box_data_all, box_data)
compute_selections_call == ComputeSelectedIndices(box_data_all, box_data)

\* rotations left as regressed: scaled by 1 (1000 thousandths)
transform_rotations_unscaled(array) == Scale(array, 1000)

\* self.transform_rotations = pr.Scale(np.pi), pi in thousandths
transform_rotations(array) == Scale(array, 3142)

\* rotations[selected_indices], translations[selected_indices]
select_rows(array) == Take(array, selected_indices)

\* the pre-NMS rows handed to to_pose_6D
to_pose_6D_rows_all == box_data_all

\* the box_data argument of self.to_pose_6D(box_data, rotations, translations)
to_pose_6D_rows == box_data

Locals == <<box_data, box_data_all, boxes2D, rotations, translations,
            selected_indices, poses6D>>
Arguments == <<image, detections, transformations, image_scale, caller>>

\* the state of the concurrent calls, which a call followed statement by
\* statement leaves alone
Concurrent == <<calls, draw_pose6D>>

\* the threads that call one detector instance
Threads == {1, 2}

\* the frame of a thread that is in no call
IdleCall ==
    [pc |-> "idle", image |-> [height |-> 0, width |-> 0], detections |-> <<>>,
     transformations |-> <<>>, boxes2D |-> <<>>, poses6D |-> <<>>,
     canvas |-> <<>>, read_from |-> {}, result |-> <<>>]

\* self.draw_pose6D before any call has assigned it
Unassigned == [built_by |-> 0, draw |-> <<>>]

Init ==
    /\ pc = "idle"
    /\ image = [height |-> 0, width |-> 0]
    /\ detections = <<>>
    /\ transformations = <<>>
    /\ image_scale = 1
    /\ box_data = <<>>
    /\ box_data_all = <<>>
    /\ boxes2D = <<>>
    /\ rotations = <<>>
    /\ translations = <<>>
    /\ selected_indices = <<>>
    /\ poses6D = <<>>
    /\ caller = "direct"
    /\ wrapped = <<>>
    /\ err = "none"
    /\ trace = <<>>
    /\ calls = [t \in Threads |-> IdleCall]
    /\ draw_pose6D = Unassigned

\* a call begins: the arguments are bound
Enter(img, dets, trans, scale, who) ==
    /\ image' = img
    /\ detections' = <<dets>>
    /\ transformations' = <<trans>>
    /\ image_scale' = scale
    /\ caller' = who
    /\ pc' = "squeeze"
    /\ UNCHANGED <<Locals, wrapped, err, trace, Concurrent>>

\* DetectAndEstimateEfficientPose.call: self.postprocess(image, outputs, 1.0, ..)
DetectCall ==
    /\ pc = "idle"
    /\ \E img \in ImageShapes, N \in 0..MaxAnchors :
        \E dets \in [1..N -> DetectionRows], trans \in TransformationRows(N) :
            Enter(img, dets, trans, 1, "detect")

\* EfficientPosePostprocess.call invoked with an image_scale of the caller's
PostprocessCall ==
    /\ pc = "idle"
    /\ \E img \in ImageShapes, N \in 0..MaxAnchors, scale \in ImageScales :
        \E dets \in [1..N -> DetectionRows], trans \in TransformationRows(N) :
            Enter(img, dets, trans, scale, "direct")

Step(from, to, name) ==
    /\ pc = from
    /\ pc' = to
    /\ trace' = Append(trace, name)
    /\ UNCHANGED <<Concurrent, Arguments, wrapped, err>>

SqueezeStep ==
    /\ Step("squeeze", "decode", "Squeeze")
    /\ box_data' = Squeeze(detections)
    /\ UNCHANGED <<box_data_all, boxes2D, rotations, translations,
                   selected_indices, poses6D>>

DecodeBoxesStep ==
    /\ Step("decode", "remove_class", "DecodeBoxes")
    /\ box_data' = DecodeBoxes(box_data)
    /\ UNCHANGED <<box_data_all, boxes2D, rotations, translations,
                   selected_indices, poses6D>>

\* the last processor of postprocess_1, then box_data_all = box_data
RemoveClassStep ==
    /\ Step("remove_class", "nms", "RemoveClass")
    /\ box_data' = RemoveClass(box_data)
    /\ box_data_all' = box_data'
    /\ UNCHANGED <<boxes2D, rotations, translations, selected_indices, poses6D>>

NonMaximumSuppressionStep ==
    /\ Step("nms", "merge", "NonMaximumSuppressionPerClass")
    /\ box_data' = postprocess_2_nms(box_data)
    /\ UNCHANGED <<box_data_all, boxes2D, rotations, translations,
                   selected_indices, poses6D>>

\* a postprocess_2 whose list lacks FilterBoxes
MergeStep_without_filter ==
    /\ Step("merge", "to_boxes2D", "MergeNMSBoxWithClass")
    /\ box_data' = MergeNMSBoxWithClass(box_data)
    /\ UNCHANGED <<box_data_all, boxes2D, rotations, translations,
                   selected_indices, poses6D>>

MergeStep ==
    /\ Step("merge", "filter", "MergeNMSBoxWithClass")
    /\ box_data' = MergeNMSBoxWithClass(box_data)
    /\ UNCHANGED <<box_data_all, boxes2D, rotations, translations,
                   selected_indices, poses6D>>

FilterBoxesStep ==
    /\ Step("filter", "to_boxes2D", "FilterBoxes")
    /\ box_data' = postprocess_2_filter(box_data)
    /\ UNCHANGED <<box_data_all, boxes2D, rotations, translations,
                   selected_indices, poses6D>>

ToBoxes2DStep ==
    /\ Step("to_boxes2D", "denormalize", "ToBoxes2D")
    /\ boxes2D' = ToBoxes2D(box_data)
    /\ UNCHANGED <<box_data, box_data_all, rotations, translations,
                   selected_indices, poses6D>>

DenormalizeStep ==
    /\ Step("denormalize", "scale_boxes2D", "DenormalizeBoxes2D")
    /\ boxes2D' = DenormalizeBoxes2D(image, boxes2D)
    /\ UNCHANGED <<box_data, box_data_all, rotations, translations,
                   selected_indices, poses6D>>

ScaleBoxes2DStep ==
    /\ Step("scale_boxes2D", "round_boxes", "ScaleBoxes2D")
    /\ boxes2D' = scale_boxes2D_call(boxes2D, image_scale)
    /\ UNCHANGED <<box_data, box_data_all, rotations, translations,
                   selected_indices, poses6D>>

RoundBoxes2DStep ==
    /\ Step("round_boxes", "slice", "RoundBoxes2D")
    /\ boxes2D' = RoundBoxes2D(boxes2D)
    /\ UNCHANGED <<box_data, box_data_all, rotations, translations,
                   selected_indices, poses6D>>

\* rotations, translations = the two halves of transformations; poses6D = [];
\* then the test of len(boxes2D) > 0
SliceStep ==
    /\ pc = "slice"
    /\ rotations' = SliceLast(transformations, 0, num_pose_dims)
    /\ translations' = SliceLast(transformations, num_pose_dims, 2 * num_pose_dims)
    /\ poses6D' = <<>>
    /\ pc' = IF pose_guard THEN "compute_selections" ELSE "to_pose_6D"
    /\ UNCHANGED <<Concurrent, Arguments, box_data, box_data_all, boxes2D, selected_indices,
                   wrapped, err, trace>>

ComputeSelectionsStep ==
    /\ pc = "compute_selections"
    /\ LET indices == compute_selections_call
       IN  IF \E k \in 1..Len(indices) : indices[k] < 0
           THEN /\ err' = "SelectionMismatchError"
                /\ pc' = "raised"
                /\ UNCHANGED <<selected_indices, trace>>
           ELSE /\ selected_indices' = indices
                /\ pc' = "rotations"
                /\ trace' = Append(trace, "ComputeSelectedIndices")
                /\ err' = err
    /\ UNCHANGED <<Concurrent, Arguments, box_data, box_data_all, boxes2D, rotations,
                   translations, poses6D, wrapped>>

\* rotations = squeeze(rotations)[selected_indices], then Scale(np.pi)
RotationsStep ==
    /\ pc = "rotations"
    /\ LET squeezed == Squeeze(rotations)
       IN  IF Indexable(squeezed, selected_indices)
           THEN /\ rotations' = transform_rotations(select_rows(squeezed))
                /\ pc' = "translations"
                /\ trace' = Append(trace, "Scale")
                /\ err' = err
           ELSE /\ err' = "IndexError"
                /\ pc' = "raised"
                /\ UNCHANGED <<rotations, trace>>
    /\ UNCHANGED <<Concurrent, Arguments, box_data, box_data_all, boxes2D, translations,
                   selected_indices, poses6D, wrapped>>

\* translations = squeeze(translations)[selected_indices]
TranslationsStep ==
    /\ pc = "translations"
    /\ LET squeezed == Squeeze(translations)
       IN  IF Indexable(squeezed, selected_indices)
           THEN /\ translations' = select_rows(squeezed)
                /\ pc' = "to_pose_6D"
                /\ err' = err
           ELSE /\ err' = "IndexError"
                /\ pc' = "raised"
                /\ UNCHANGED translations
    /\ UNCHANGED <<Concurrent, Arguments, box_data, box_data_all, boxes2D, rotations,
                   selected_indices, poses6D, wrapped, trace>>

\* poses6D = self.to_pose_6D(box_data, rotations, translations), on every path
ToPose6DStep ==
    /\ pc = "to_pose_6D"
    /\ LET rows == to_pose_6D_rows
       IN  IF rows = <<>> \/ (Len(rotations) = Len(rows) /\ Len(translations) = Len(rows))
           THEN /\ poses6D' = ToPose6D(rows, rotations, translations)
                /\ pc' = IF caller = "detect" THEN "draw" ELSE "done"
                /\ trace' = Append(trace, "ToPose6D")
                /\ err' = err
           ELSE /\ err' = "ShapeMismatchError"
                /\ pc' = "raised"
                /\ UNCHANGED <<poses6D, trace>>
    /\ UNCHANGED <<Concurrent, Arguments, box_data, box_data_all, boxes2D, rotations,
                   translations, selected_indices, wrapped>>

\* zip(boxes2D, poses6D): pairs up to the shorter list
Zip(a, b) == [k \in 1..Min(Len(a), Len(b)) |-> <<a[k], b[k]>>]

\* DetectAndEstimateEfficientPose.call after postprocess: draw every pair of
\* zip(boxes2D, poses6D), wrap the outputs
DrawAndWrapStep ==
    /\ pc = "draw"
    /\ wrapped' = [boxes2D |-> boxes2D, poses6D |-> poses6D,
                   drawn |-> Zip(boxes2D, poses6D)]
    /\ pc' = "done"
    /\ UNCHANGED <<Concurrent, Arguments, Locals, err, trace>>

\* the call returns or raises; its locals are gone
Return ==
    /\ pc \in {"done", "raised"}
    /\ pc' = "idle"
    /\ image' = [height |-> 0, width |-> 0]
    /\ detections' = <<>>
    /\ transformations' = <<>>
    /\ image_scale' = 1
    /\ box_data' = <<>>
    /\ box_data_all' = <<>>
    /\ boxes2D' = <<>>
    /\ rotations' = <<>>
    /\ translations' = <<>>
    /\ selected_indices' = <<>>
    /\ poses6D' = <<>>
    /\ caller' = "direct"
    /\ wrapped' = <<>>
    /\ err' = "none"
    /\ trace' = <<>>
    /\ UNCHANGED Concurrent

Next ==
    \/ DetectCall
    \/ PostprocessCall
    \/ SqueezeStep
    \/ DecodeBoxesStep
    \/ RemoveClassStep
    \/ NonMaximumSuppressionStep
    \/ MergeStep
    \/ FilterBoxesStep
    \/ ToBoxes2DStep
    \/ DenormalizeStep
    \/ ScaleBoxes2DStep
    \/ RoundBoxes2DStep
    \/ SliceStep
    \/ ComputeSelectionsStep
    \/ RotationsStep
    \/ TranslationsStep
    \/ ToPose6DStep
    \/ DrawAndWrapStep
    \/ Return

Spec == Init /\ [][Next]_vars

(***************************************************************************)
(* Concurrent calls of DetectAndEstimateEfficientPose.call on one instance *)
(* A thread's call is followed at the statements that touch the instance:  *)
(* the post-processing of a call works on its own arguments and locals and *)
(* is one step.                                                            *)
(***************************************************************************)
\* the call's variables of the statement-by-statement specification
Sequential == <<pc, Arguments, Locals, wrapped, err, trace>>

\* the detections a concurrent call is made with: none, or one anchor
ConcurrentDetections == {<<>>} \cup {<<row>> : row \in DetectionRows}

\* self.camera_matrix and self.class_to_sizes, self.colors by class name
camera_matrix == "LINEMOD_CAMERA_MATRIX"
class_to_sizes == [name \in Range(kept_class_names) |-> <<"size", name>>]
colors == [name \in Range(kept_class_names) |-> <<"color", name>>]

\* the camera_parameter that self.preprocess(image) returns
camera_parameter(img) == <<"camera_parameter", img>>

\* _build_draw_pose6D: one DrawPose6D per class name
build_draw_pose6D(name_to_size, camera) ==
    [name \in DOMAIN name_to_size |->
        [object_size |-> name_to_size[name], camera |-> camera,
         box_color |-> colors[name]]]

\* EfficientPosePostprocess.call as a function of its arguments
postprocess(img, dets, trans, scale) ==
    LET all      == RemoveClass(DecodeBoxes(Squeeze(<<dets>>)))
        rows     == postprocess_2_filter(MergeNMSBoxWithClass(postprocess_2_nms(all)))
        boxes    == RoundBoxes2D(scale_boxes2D_call(
                        DenormalizeBoxes2D(img, ToBoxes2D(rows)), scale))
        rots     == SliceLast(<<trans>>, 0, num_pose_dims)
        transl   == SliceLast(<<trans>>, num_pose_dims, 2 * num_pose_dims)
        selected == ComputeSelectedIndices(all, rows)
    IN  [boxes2D |-> boxes,
         poses6D |-> IF Len(boxes) > 0
                     THEN ToPose6D(rows,
                                   transform_rotations(Take(Squeeze(rots), selected)),
                                   Take(Squeeze(transl), selected))
                     ELSE ToPose6D(rows, rots, transl)]

\* what one draw call leaves on the image: the drawer and what it drew
Drawn(drawer, what) == [drawer |-> drawer, drew |-> what]

\* preprocess, then the arguments are bound
CallBegin(t) ==
    /\ calls[t].pc = "idle"
    /\ \E img \in ImageShapes, dets \in ConcurrentDetections :
           \E trans \in TransformationRows(Len(dets)) :
               calls' = [calls EXCEPT ![t] =
                            [IdleCall EXCEPT !.pc = "postprocess", !.image = img,
                                             !.detections = dets,
                                             !.transformations = trans]]
    /\ UNCHANGED <<draw_pose6D, Sequential>>

\* boxes2D, poses6D = self.postprocess(image, outputs, 1.0, camera_parameter),
\* then self.draw_boxes2D(image, boxes2D)
CallPostprocess(t) ==
    /\ calls[t].pc = "postprocess"
    /\ LET out == postprocess(calls[t].image, calls[t].detections,
                              calls[t].transformations, 1)
       IN  calls' = [calls EXCEPT ![t].boxes2D = out.boxes2D,
                                  ![t].poses6D = out.poses6D,
                                  ![t].canvas = <<Drawn("draw_boxes2D", out.boxes2D)>>,
                                  ![t].pc = "build"]
    /\ UNCHANGED <<draw_pose6D, Sequential>>

\* a draw_pose6D built with the call's own camera_parameter
CallBuild_camera_parameter(t) ==
    /\ calls[t].pc = "build"
    /\ draw_pose6D' =
           [built_by |-> t,
            draw |-> build_draw_pose6D(class_to_sizes, camera_parameter(calls[t].image))]
    /\ calls' = [calls EXCEPT ![t].pc = "draw"]
    /\ UNCHANGED Sequential

\* self.draw_pose6D = self._build_draw_pose6D(self.class_to_sizes,
\*                                            self.camera_matrix)
CallBuild(t) ==
    /\ calls[t].pc = "build"
    /\ draw_pose6D' =
           [built_by |-> t, draw |-> build_draw_pose6D(class_to_sizes, camera_matrix)]
    /\ calls' = [calls EXCEPT ![t].pc = "draw"]
    /\ UNCHANGED Sequential

\* the pairs of zip(boxes2D, poses6D) drawn so far in the loop
PairsDrawn(t) == Len(calls[t].canvas) - 1

\* one iteration of the loop: self.draw_pose6D[box2D.class_name](image, pose6D)
CallDrawPose(t) ==
    /\ calls[t].pc = "draw"
    /\ PairsDrawn(t) < Len(Zip(calls[t].boxes2D, calls[t].poses6D))
    /\ LET pair == Zip(calls[t].boxes2D, calls[t].poses6D)[PairsDrawn(t) + 1]
       IN  calls' = [calls EXCEPT
               ![t].canvas = Append(@, Drawn(draw_pose6D.draw[pair[1].class_name],
                                             pair[2])),
               ![t].read_from = @ \cup {draw_pose6D.built_by}]
    /\ UNCHANGED <<draw_pose6D, Sequential>>

\* the loop is over: return self.wrap(image, boxes2D, poses6D)
CallWrap(t) ==
    /\ calls[t].pc = "draw"
    /\ PairsDrawn(t) = Len(Zip(calls[t].boxes2D, calls[t].poses6D))
    /\ calls' = [calls EXCEPT
           ![t].result = [image |-> calls[t].canvas, boxes2D |-> calls[t].boxes2D,
                          poses6D |-> calls[t].poses6D],
           ![t].pc = "done"]
    /\ UNCHANGED <<draw_pose6D, Sequential>>

\* the caller has the result; the frame is gone, the instance stays
CallReturn(t) ==
    /\ calls[t].pc = "done"
    /\ calls' = [calls EXCEPT ![t] = IdleCall]
    /\ UNCHANGED <<draw_pose6D, Sequential>>

ConcurrentNext ==
    \E t \in Threads :
        \/ CallBegin(t)
        \/ CallPostprocess(t)
        \/ CallBuild(t)
        \/ CallDrawPose(t)
        \/ CallWrap(t)
        \/ CallReturn(t)

ConcurrentSpec == Init /\ [][ConcurrentNext]_vars

(***************************************************************************)
(* Properties                                                              *)
(***************************************************************************)

\* the statements after postprocess_2: box_data holds the surviving rows
AfterFilter ==
    pc \in {"to_boxes2D", "denormalize", "scale_boxes2D", "round_boxes", "slice",
            "compute_selections", "rotations", "translations", "to_pose_6D",
            "draw", "done", "raised"}

\* the call is over
Returned == pc \in {"done", "raised"}

C2_Pairing ==
    Returned =>
        /\ pc = "done"
        /\ Len(poses6D) = Len(box_data)
        /\ Len(boxes2D) = Len(box_data)
        /\ \A k \in 1..Len(box_data) :
               /\ boxes2D[k].class_name = kept_class_names[row_class(box_data[k])]
               /\ poses6D[k].class_name = boxes2D[k].class_name
        /\ caller = "detect" =>
               /\ Len(wrapped.drawn) = Len(boxes2D)
               /\ \A k \in 1..Len(boxes2D) :
                      wrapped.drawn[k] = <<boxes2D[k], poses6D[k]>>

\* C2 witness: the detector returned two or more boxes of different classes
C2_Witness ==
    /\ pc = "done"
    /\ caller = "detect"
    /\ Len(boxes2D) >= 2
    /\ Len(box_data_all) > Len(boxes2D)
    /\ \E k \in 1..Len(boxes2D) : boxes2D[k].class_name # boxes2D[1].class_name

\* the statements at which selected_indices has been computed
AfterSelection ==
    /\ pc \in {"rotations", "translations", "to_pose_6D", "draw", "done"}
    /\ Len(boxes2D) > 0

\* C3: whenever a box survives, the selection is computed without error, has
\* one entry per surviving box, and every entry is an index into the pre-NMS
\* array and into the squeezed regression tensors.
C3_SelectedIndicesInRange ==
    /\ err \notin {"SelectionMismatchError", "IndexError"}
    /\ AfterSelection =>
           /\ Len(selected_indices) = Len(boxes2D)
           /\ Len(selected_indices) = Len(box_data)
           /\ \A k \in 1..Len(selected_indices) :
                  /\ 0 <= selected_indices[k]
                  /\ selected_indices[k] < Len(box_data_all)
                  /\ selected_indices[k] < Len(Squeeze(transformations))

\* C3 witness: a selection that is not the identity: fewer survivors than
\* anchors, the last anchor selected first
C3_Witness ==
    /\ pc = "rotations"
    /\ Len(box_data_all) = 3
    /\ Len(selected_indices) = 2
    /\ selected_indices[1] = 2

\* the order in which the call applies its processors
ProcessorOrder ==
    <<"Squeeze", "DecodeBoxes", "RemoveClass", "NonMaximumSuppressionPerClass",
      "MergeNMSBoxWithClass", "FilterBoxes", "ToBoxes2D", "DenormalizeBoxes2D",
      "ScaleBoxes2D", "RoundBoxes2D", "ComputeSelectedIndices", "Scale",
      "ToPose6D">>

\* the same with the branch of the pose selection not taken
ProcessorOrderNoSelection ==
    SelectSeq(ProcessorOrder, LAMBDA n : n \notin {"ComputeSelectedIndices", "Scale"})

IsPrefix(a, b) == Len(a) <= Len(b) /\ a = SubSeq(b, 1, Len(a))

\* C4 as stated: score filtering precedes non-maximum suppression
C4_FilterBeforeSuppression ==
    "NonMaximumSuppressionPerClass" \in Range(trace) => "FilterBoxes" \in Range(trace)

\* C4 amended: every run passes through decoding, class removal, suppression,
\* merge, score filtering, Box2D conversion, denormalization, scaling, rounding,
\* pose selection (only with a surviving box) and pose assembly in this one
\* order: suppression precedes score filtering, which precedes rescaling; no
\* stage is repeated or reordered, and a returned call has run them all.
C4_StageOrder ==
    /\ IsPrefix(trace, ProcessorOrder) \/ IsPrefix(trace, ProcessorOrderNoSelection)
    /\ pc = "done" =>
           trace = IF Len(boxes2D) > 0 THEN ProcessorOrder
                   ELSE ProcessorOrderNoSelection

\* C4 witness: a returned run with a surviving box, all stages passed
C4_Witness ==
    /\ pc = "done"
    /\ trace = ProcessorOrder

\* C5 as stated: pose assembly (selection, rotation scaling, ToPose6D) runs
\* only in runs with at least one surviving box
C5_NoPoseAssemblyWhenEmpty ==
    (AfterFilter /\ box_data = <<>>) =>
        Range(trace) \cap {"ComputeSelectedIndices", "Scale", "ToPose6D"} = {}

\* the normalized box of surviving row k, in thousandths
NormalizedBox(k) == box_data[k].box

\* C6 as stated: denormalization yields round(x_norm * width) and
\* round(y_norm * height) for the width and height of the image passed in,
\* halves rounded away from zero
C6_DenormalizeByImageShape ==
    pc = "scale_boxes2D" =>
        \A k \in 1..Len(boxes2D) :
            boxes2D[k].coordinates =
                <<Rat(RoundHalfAway(NormalizedBox(k)[1] * image.width, 1000), 1),
                  Rat(RoundHalfAway(NormalizedBox(k)[2] * image.height, 1000), 1),
                  Rat(RoundHalfAway(NormalizedBox(k)[3] * image.width, 1000), 1),
                  Rat(RoundHalfAway(NormalizedBox(k)[4] * image.height, 1000), 1)>>

\* C7 as stated: every coordinate of every returned Box2D is an integer
\* within the image: 0 <= x <= width - 1 and 0 <= y <= height - 1
C7_CoordinatesClampedToImage ==
    pc = "done" =>
        \A k \in 1..Len(boxes2D) :
            LET xy == boxes2D[k].coordinates
            IN  /\ \A j \in 1..4 : xy[j].d = 1
                /\ \A j \in {1, 3} : 0 <= xy[j].n /\ xy[j].n <= image.width - 1
                /\ \A j \in {2, 4} : 0 <= xy[j].n /\ xy[j].n <= image.height - 1

\* the candidates of class c before suppression, as [box, score]
CandidatesOf(c) ==
    [i \in 1..Len(box_data_all) |->
        [box |-> box_data_all[i].box, score |-> box_data_all[i].scores[c]]]

\* the IoU of a and b is exactly 0.6
IoUIsSixTenths(a, b) == Intersection(a, b) * 10 = 6 * Union(a, b)

\* C8: after the suppression stage, for every class: the kept boxes are
\* candidates of the class in descending score order, the highest-scoring
\* candidate is kept, no two kept boxes have IoU above nms_thresh, and every
\* candidate that was discarded has IoU above nms_thresh with a kept box whose
\* score is at least as high; of two candidates with IoU 0.6 and scores 0.9
\* and 0.8 only the 0.9 one is kept.
C8_GreedySuppression ==
    pc = "merge" =>
        \A c \in 1..num_classes :
            LET kept == box_data[c]
                cand == CandidatesOf(c)
            IN  /\ Range(kept) \subseteq Range(cand)
                /\ cand # <<>> =>
                       /\ kept # <<>>
                       /\ \A i \in 1..Len(cand) : kept[1].score >= cand[i].score
                /\ \A k, l \in 1..Len(kept) :
                       k < l =>
                           /\ kept[k].score >= kept[l].score
                           /\ ~IoUExceeds(kept[k].box, kept[l].box, nms_thresh)
                /\ \A i \in 1..Len(cand) :
                       \/ cand[i] \in Range(kept)
                       \/ \E k \in 1..Len(kept) :
                              /\ IoUExceeds(kept[k].box, cand[i].box, nms_thresh)
                              /\ kept[k].score >= cand[i].score
                /\ ( /\ Len(cand) = 2
                     /\ cand[1].score = 9
                     /\ cand[2].score = 8
                     /\ IoUIsSixTenths(cand[1].box, cand[2].box) )
                       => kept = <<cand[1]>>

\* C8 witness: three candidates in a chain (first and second overlap, second
\* and third overlap, first and third do not); the second is discarded and
\* the third, which overlaps only the discarded one, is kept
C8_Witness ==
    /\ pc = "merge"
    /\ Len(box_data_all) = 3
    /\ LET cand == CandidatesOf(1)
       IN  /\ IoUExceeds(cand[1].box, cand[2].box, nms_thresh)
           /\ IoUExceeds(cand[2].box, cand[3].box, nms_thresh)
           /\ ~IoUExceeds(cand[1].box, cand[3].box, nms_thresh)
           /\ cand[1].score = 9
           /\ cand[2].score = 8
           /\ box_data[1] = <<cand[1], cand[3]>>

\* suppression of one class run again on its own output
SuppressAgain(kept, thr) ==
    apply_non_max_suppression([k \in 1..Len(kept) |-> kept[k].box],
                              [k \in 1..Len(kept) |-> kept[k].score], thr)

\* the IoU thresholds tried, in hundredths
Thresholds == {30, 60, 100}

\* C9: suppression run again on the output of the suppression stage, with
\* the same threshold, returns that output unchanged, for every class; and so
\* does the suppression of the candidates under every threshold tried.
C9_SuppressionIdempotent ==
    /\ pc = "merge" =>
           \A c \in 1..num_classes : SuppressAgain(box_data[c], nms_thresh) = box_data[c]
    /\ pc = "nms" =>
           \A thr \in Thresholds :
               LET once == NonMaximumSuppressionPerClass(box_data, thr)
               IN  \A c \in 1..num_classes : SuppressAgain(once[c], thr) = once[c]

\* C9 witness: a suppression that discarded a candidate and kept two
C9_Witness ==
    /\ pc = "merge"
    /\ Len(box_data_all) = 3
    /\ Len(box_data[1]) = 2
    /\ Len(box_data[2]) = 1

\* C10: in a returned call with a surviving box, pose k is built from the one
\* regression row at index selected_indices[k], the row of the anchor whose
\* box survived as box k: its rotation is the first num_pose_dims components
\* of that row times pi, its translation the remaining components unscaled.
C10_PoseFromSelectedRow ==
    (pc \in {"draw", "done"} /\ Len(boxes2D) > 0) =>
        \A k \in 1..Len(poses6D) :
            LET row == Squeeze(transformations)[selected_indices[k] + 1]
            IN  /\ box_data_all[selected_indices[k] + 1].box = box_data[k].box
                /\ poses6D[k].rotation =
                       [j \in 1..num_pose_dims |-> 3142 * row[j]]
                /\ poses6D[k].translation =
                       [j \in 1..(Len(row) - num_pose_dims) |-> row[num_pose_dims + j]]

\* C10 witness: two poses returned, taken from the third and the first anchor
C10_Witness ==
    /\ pc = "done"
    /\ Len(poses6D) = 2
    /\ selected_indices = <<2, 0>>

\* the pixel box denormalize_box makes of surviving row k
DenormalizedBox(k) ==
    <<IntTrunc(NormalizedBox(k)[1] * width, 1000),
      IntTrunc(NormalizedBox(k)[2] * height, 1000),
      IntTrunc(NormalizedBox(k)[3] * width, 1000),
      IntTrunc(NormalizedBox(k)[4] * height, 1000)>>

\* the statements after round_boxes
AfterRound ==
    pc \in {"slice", "compute_selections", "rotations", "translations",
            "to_pose_6D", "draw", "done"}

\* C12 as stated: the inverse image-scale correction is applied before the
\* boxes are denormalized
C12_ScaleBeforeDenormalize ==
    "DenormalizeBoxes2D" \in Range(trace) => "ScaleBoxes2D" \in Range(trace)

\* C12 amended: in every run the normalized boxes are denormalized to pixels
\* first, the pixel coordinates are then multiplied by 1 / image_scale, and
\* rounding to integers comes after both and is the last geometric step: the
\* boxes stay as rounded until the call returns.
C12_ScaleAfterDenormalize ==
    /\ "ScaleBoxes2D" \in Range(trace) => "DenormalizeBoxes2D" \in Range(trace)
    /\ "RoundBoxes2D" \in Range(trace) => "ScaleBoxes2D" \in Range(trace)
    /\ (pc \in {"scale_boxes2D", "round_boxes"} \/ AfterRound) =>
           /\ Len(boxes2D) = Len(box_data)
           /\ \A k \in 1..Len(boxes2D) : \A j \in 1..4 :
                  boxes2D[k].coordinates[j] =
                      CASE pc = "scale_boxes2D" -> Rat(DenormalizedBox(k)[j], 1)
                        [] pc = "round_boxes" -> Rat(DenormalizedBox(k)[j], image_scale)
                        [] OTHER -> Rat(RoundHalfAway(DenormalizedBox(k)[j], image_scale), 1)

\* C12 witness: a call with image_scale 2 returned the box [0.1, 0.1, 0.3, 0.3]
\* as pixels halved
C12_Witness ==
    /\ pc = "done"
    /\ image_scale = 2
    /\ Len(boxes2D) >= 1
    /\ NormalizedBox(1) = <<100, 100, 300, 300>>
    /\ boxes2D[1].coordinates = <<Rat(32, 1), Rat(32, 1), Rat(96, 1), Rat(96, 1)>>


\* the result of a call that runs alone on the instance: the post-processed
\* boxes and poses, drawn with the DrawPose6D of the construction-time
\* configuration
SequentialResult(img, dets, trans) ==
    LET out   == postprocess(img, dets, trans, 1)
        draw  == build_draw_pose6D(class_to_sizes, camera_matrix)
        pairs == Zip(out.boxes2D, out.poses6D)
    IN  [image |-> <<Drawn("draw_boxes2D", out.boxes2D)>> \o
                   [k \in 1..Len(pairs) |->
                       Drawn(draw[pairs[k][1].class_name], pairs[k][2])],
         boxes2D |-> out.boxes2D,
         poses6D |-> out.poses6D]

\* the one-step post-processing of a concurrent call returns what the
\* statement-by-statement post-processing returns on the same arguments
PostprocessAgrees ==
    pc = "done" =>
        LET out == postprocess(image, detections[1], transformations[1], image_scale)
        IN  boxes2D = out.boxes2D /\ poses6D = out.poses6D

\* C11 as stated: no call reads instance state that another call wrote, so
\* every DrawPose6D a call draws with was built by that call itself
C11_NoSharedInstanceState ==
    \A t \in Threads : calls[t].read_from \subseteq {t}

\* C11: every call writes the instance attribute draw_pose6D and reads it in
\* its drawing loop, possibly as another call wrote it, but what is written
\* is always the same value, fixed by the construction-time configuration;
\* so under any interleaving of concurrent calls on one instance each call
\* returns the result it returns when it runs alone, which depends only on
\* its own inputs and that configuration
C11_InterleavingEquivalence ==
    /\ draw_pose6D # Unassigned =>
           draw_pose6D.draw = build_draw_pose6D(class_to_sizes, camera_matrix)
    /\ \A t \in Threads :
           calls[t].pc = "done" =>
               calls[t].result = SequentialResult(calls[t].image, calls[t].detections,
                                                  calls[t].transformations)

\* a call on a 480x640 image has returned poses it drew with the DrawPose6D
\* that a concurrent call on a 640x640 image built
C11_Witness ==
    /\ calls[1].pc = "done"
    /\ calls[1].read_from = {2}
    /\ Len(calls[1].result.poses6D) >= 1
    /\ calls[2].pc \in {"draw", "done"}
    /\ calls[1].image.height = 480
    /\ calls[2].image.height = 640

====
